---------------------------- MODULE Spec2Model ----------------------------
(* State-machine model of the chord chart editor in src/src/main.rs:     *)
(* the Song / Section / Bar document, the cursor and the key handlers of   *)
(* main's event loop.  Indices are 0-based as in the source; TLA+          *)
(* sequences are 1-based, so element i of a Vec is seq[i + 1].             *)
EXTENDS Integers, Sequences, FiniteSets, TLC

VARIABLES song, cursor, panicked, calls, should_quit, filename, disk, arg, ret

vars == <<song, cursor, panicked, calls, should_quit, filename, disk, arg, ret>>

(* State fields besides the song and the cursor, and the files on disk.    *)
session == <<should_quit, filename, disk>>

(* The argument and the result of the function call under study.           *)
call == <<arg, ret>>

-----------------------------------------------------------------------------
(* Bounds of the exploration (not program constants).                      *)

MaxSize == 3

MaxOvershoot == 1

MaxLabel == 2

MaxLoadedSections == 3

(* Largest chord key of the bars given to the Bar methods, and the number  *)
(* of method calls made on one bar.                                        *)
MaxBarKey == 8

MaxOps == 2

(* Longest text given to Chord::parse.                                     *)
MaxTextLen == 3

(* Bars plus chords of a song in the sessions with chord entry and the     *)
(* command line.                                                           *)
MaxEntrySize == 2

(* Most bars of the section whose layout is computed.                      *)
MaxLayoutBars == 3

(* Bars per section of the songs navigation is called on.                 *)
MaxNavBars == 2

-----------------------------------------------------------------------------
(* Program constants.                                                      *)

SECTION_LABELS ==
    <<"A", "B", "C", "D", "E", "F", "G", "H", "I", "J", "K", "L", "M", "N", "O", "P">>

MaxSubdivision == 16

DefaultBeats == 4

DefaultSubdivision == 4

DefaultWrap == 4

-----------------------------------------------------------------------------
(* Small helpers on sequences and maps.                                    *)

Last(seq) == seq[Len(seq)]

RemoveAt(seq, i) == SubSeq(seq, 1, i) \o SubSeq(seq, i + 2, Len(seq))

EmptyMap == [k \in {} |-> 0]

MapInsert(m, k, v) == [j \in (DOMAIN m) \cup {k} |-> IF j = k THEN v ELSE m[j]]

MapRemove(m, k) == [j \in (DOMAIN m) \ {k} |-> m[j]]

MinOf(S) == CHOOSE x \in S : \A y \in S : x <= y

-----------------------------------------------------------------------------
(* Document constructors.                                                  *)

BarNew(beats, subdivision) ==
    [beats |-> beats, subdivision |-> subdivision, chords |-> EmptyMap]

BarDefault == BarNew(DefaultBeats, DefaultSubdivision)

SongNew ==
    [title |-> "untitled",
     sections |-> <<[label |-> "A", bars |-> <<BarDefault>>,
                     repeats |-> FALSE, wrap |-> DefaultWrap]>>]

CursorDefault == [section |-> 0, bar |-> 0, subdivision |-> 0]

-----------------------------------------------------------------------------
(* Bar operations (impl Bar).                                              *)

(* The remapping loop of try_reduce_subdivision: for each key of a clone   *)
(* of the map, in ascending order, remove(&k).unwrap() and insert at k/2.  *)
(* `todo` is the set of cloned keys not yet visited; a missing key makes   *)
(* unwrap() panic.                                                         *)
MaxOf(S) == CHOOSE x \in S : \A y \in S : x >= y

(* Variant that visits the cloned keys in descending order.                *)
RECURSIVE ReduceLoop_descending(_, _)
ReduceLoop_descending(chords, todo) ==
    IF todo = {} THEN [chords |-> chords, panicked |-> FALSE]
    ELSE LET k == MaxOf(todo) IN
         IF k \notin DOMAIN chords
         THEN [chords |-> chords, panicked |-> TRUE]
         ELSE ReduceLoop_descending(
                  MapInsert(MapRemove(chords, k), k \div 2, chords[k]), todo \ {k})

RECURSIVE ReduceLoop(_, _)
ReduceLoop(chords, todo) ==
    IF todo = {} THEN [chords |-> chords, panicked |-> FALSE]
    ELSE LET k == MinOf(todo) IN
         IF k \notin DOMAIN chords
         THEN [chords |-> chords, panicked |-> TRUE]
         ELSE ReduceLoop(MapInsert(MapRemove(chords, k), k \div 2, chords[k]),
                         todo \ {k})

(* Variant whose fit test refuses a bar that exactly fills the new size.   *)
try_reduce_subdivision_strict(bar) ==
    IF bar.subdivision = 1
    THEN [bar |-> bar, ok |-> FALSE, panicked |-> FALSE]
    ELSE LET new == bar.subdivision \div 2 IN
         IF Cardinality(DOMAIN bar.chords) >= new
         THEN [bar |-> bar, ok |-> FALSE, panicked |-> FALSE]
         ELSE LET r == ReduceLoop(bar.chords, DOMAIN bar.chords) IN
              [bar |-> [bar EXCEPT !.chords = r.chords, !.subdivision = new],
               ok |-> TRUE, panicked |-> FALSE]

(* Result: the bar afterwards, the returned bool and whether it panicked.  *)
try_reduce_subdivision(bar) ==
    IF bar.subdivision = 1
    THEN [bar |-> bar, ok |-> FALSE, panicked |-> FALSE]
    ELSE LET new == bar.subdivision \div 2 IN
         IF Cardinality(DOMAIN bar.chords) > new
         THEN [bar |-> bar, ok |-> FALSE, panicked |-> FALSE]
         ELSE LET r == ReduceLoop(bar.chords, DOMAIN bar.chords) IN
              IF r.panicked
              THEN [bar |-> [bar EXCEPT !.chords = r.chords],
                    ok |-> FALSE, panicked |-> TRUE]
              ELSE [bar |-> [bar EXCEPT !.chords = r.chords, !.subdivision = new],
                    ok |-> TRUE, panicked |-> FALSE]

(* Variant that doubles the subdivision and leaves the keys where they     *)
(* are.                                                                    *)
double_subdivision_noRemap(bar) ==
    IF bar.subdivision >= MaxSubdivision THEN bar
    ELSE [bar EXCEPT !.subdivision = bar.subdivision * 2]

(* Variant with the limit test off by one (> instead of >=).               *)
double_subdivision_offByOne(bar) ==
    IF bar.subdivision > MaxSubdivision THEN bar
    ELSE [bar EXCEPT !.subdivision = bar.subdivision * 2,
                     !.chords = [j \in {2 * k : k \in DOMAIN bar.chords}
                                   |-> bar.chords[j \div 2]]]

double_subdivision(bar) ==
    IF bar.subdivision >= MaxSubdivision THEN bar
    ELSE [bar EXCEPT !.subdivision = bar.subdivision * 2,
                     !.chords = [j \in {2 * k : k \in DOMAIN bar.chords}
                                   |-> bar.chords[j \div 2]]]

-----------------------------------------------------------------------------
(* Editor state as a value: st.song, st.cursor, st.panicked.  A handler    *)
(* is an operator from such a value to the value after the call.  A Rust   *)
(* panic (index out of bounds, arithmetic overflow, unwrap on None) aborts *)
(* the process: panicked becomes TRUE and nothing runs afterwards.         *)

St == [song |-> song, cursor |-> cursor, panicked |-> panicked]

Sections(st) == st.song.sections

NumSections(st) == Len(st.song.sections)

current_section(st) == st.song.sections[st.cursor.section + 1]

NumBars(st) == Len(current_section(st).bars)

current_bar(st) == current_section(st).bars[st.cursor.bar + 1]

next_bar(st) ==
    IF st.cursor.bar + 1 = NumBars(st)
    THEN [st EXCEPT !.cursor.subdivision = Last(current_section(st).bars).subdivision - 1]
    ELSE [st EXCEPT !.cursor.bar = st.cursor.bar + 1]

SectionLabelPosition(label) ==
    IF \E n \in 1..Len(SECTION_LABELS) : SECTION_LABELS[n] = label
    THEN CHOOSE n \in 1..Len(SECTION_LABELS) : SECTION_LABELS[n] = label
    ELSE 0

(* Variant that wraps around to "A" after the last label.                  *)
NextLabel_wrap(label) ==
    LET n == SectionLabelPosition(label) IN
    IF n = 0 THEN "?"
    ELSE SECTION_LABELS[(n % Len(SECTION_LABELS)) + 1]

(* Variant that gives the new section the label of the previous one.      *)
NextLabel_repeat(label) ==
    IF SectionLabelPosition(label) = 0 THEN "?" ELSE label

NextLabel(label) ==
    LET n == SectionLabelPosition(label) IN
    IF n = 0 THEN "?"
    ELSE IF n + 1 <= Len(SECTION_LABELS) THEN SECTION_LABELS[n + 1] ELSE "?"

next_or_create_section(st) ==
    IF st.cursor.section + 1 < NumSections(st)
    THEN [st EXCEPT !.cursor = [section |-> st.cursor.section + 1,
                                bar |-> 0, subdivision |-> 0]]
    ELSE LET previous == Last(Sections(st))
             new == [label |-> NextLabel(previous.label),
                     bars |-> <<BarNew(Last(previous.bars).beats,
                                       Last(previous.bars).subdivision)>>,
                     repeats |-> FALSE,
                     wrap |-> previous.wrap]
         IN [st EXCEPT !.song.sections = Append(Sections(st), new),
                       !.cursor = [section |-> st.cursor.section + 1,
                                   bar |-> 0, subdivision |-> 0]]

(* The bar next_or_create_bar appends: Bar::new(previous.beats,            *)
(* previous.subdivision).                                                  *)
(* Variant that appends Bar::default() instead of a clone.                 *)
NewBarAfter_default(previous) == BarDefault

NewBarAfter(previous) == BarNew(previous.beats, previous.subdivision)

(* Variant that appends a bar after the last bar of any section, not only  *)
(* of the last one.                                                        *)
next_or_create_bar_anySection(st) ==
    LET section == current_section(st) IN
    IF Len(section.bars) = st.cursor.bar + 1
    THEN [st EXCEPT !.song.sections[st.cursor.section + 1].bars =
                        Append(section.bars, NewBarAfter(Last(section.bars))),
                    !.cursor.bar = st.cursor.bar + 1,
                    !.cursor.subdivision = 0]
    ELSE [st EXCEPT !.cursor.bar = st.cursor.bar + 1,
                    !.cursor.subdivision = 0]

next_or_create_bar(st) ==
    LET section == current_section(st) IN
    IF Len(section.bars) = 0
    THEN [st EXCEPT !.song.sections[st.cursor.section + 1].bars = <<BarDefault>>,
                    !.cursor.bar = 0, !.cursor.subdivision = 0]
    ELSE LET previous == Last(section.bars)
             new == NewBarAfter(previous)
         IN IF Len(section.bars) = st.cursor.bar + 1
               /\ NumSections(st) = st.cursor.section + 1
            THEN [st EXCEPT !.song.sections[st.cursor.section + 1].bars =
                                Append(section.bars, new),
                            !.cursor.bar = st.cursor.bar + 1,
                            !.cursor.subdivision = 0]
            ELSE IF Len(section.bars) = st.cursor.bar + 1
            THEN next_or_create_section(st)
            ELSE [st EXCEPT !.cursor.bar = st.cursor.bar + 1,
                            !.cursor.subdivision = 0]

prev_section(st) ==
    IF st.cursor.section > 0
    THEN [st EXCEPT !.cursor.section = st.cursor.section - 1,
                    !.cursor.bar = Len(Sections(st)[st.cursor.section].bars)]
    ELSE st

(* Variant of line 543 that leaves the bar index as prev_section set it.   *)
SaturatingSub1_none(n) == n

SaturatingSub1(n) == IF n = 0 THEN 0 ELSE n - 1

prev_bar(st) ==
    IF st.cursor.bar = 0 /\ st.cursor.subdivision > 0
    THEN [st EXCEPT !.cursor.subdivision = 0]
    ELSE LET s1 == IF st.cursor.bar = 0 /\ st.cursor.subdivision = 0
                   THEN prev_section(st) ELSE st
         IN [s1 EXCEPT !.cursor.bar = SaturatingSub1(s1.cursor.bar)]

(* Variant that compares the index itself with the subdivision count.     *)
next_subdivision_late(st) ==
    IF st.cursor.subdivision = current_bar(st).subdivision
    THEN next_or_create_bar(st)
    ELSE [st EXCEPT !.cursor.subdivision = st.cursor.subdivision + 1]

(* section.bars[current_bar] panics when the bar index is past the bars.   *)
next_subdivision(st) ==
    IF st.cursor.bar >= NumBars(st)
    THEN [st EXCEPT !.panicked = TRUE]
    ELSE IF st.cursor.subdivision + 1 = current_bar(st).subdivision
    THEN next_or_create_bar(st)
    ELSE [st EXCEPT !.cursor.subdivision = st.cursor.subdivision + 1]

(* Variant that leaves the subdivision at 0 after stepping back a bar.     *)
prev_subdivision_keepZero(st) ==
    IF st.cursor.subdivision = 0
    THEN prev_bar(st)
    ELSE [st EXCEPT !.cursor.subdivision = st.cursor.subdivision - 1]

prev_subdivision(st) ==
    IF st.cursor.subdivision = 0
    THEN LET s1 == prev_bar(st) IN
         IF s1.cursor.bar >= NumBars(s1)
         THEN [s1 EXCEPT !.panicked = TRUE]
         ELSE [s1 EXCEPT !.cursor.subdivision = current_bar(s1).subdivision - 1]
    ELSE [st EXCEPT !.cursor.subdivision = st.cursor.subdivision - 1]

RECURSIVE Repeat(_, _, _)
Repeat(Op(_), n, st) == IF n = 0 THEN st ELSE Repeat(Op, n - 1, Op(st))

key_up(st) == Repeat(prev_bar, current_section(st).wrap, st)

key_down(st) == Repeat(next_bar, current_section(st).wrap, st)

-----------------------------------------------------------------------------
(* Chord notation: text is a sequence of one-character strings.             *)

UpperNotes == {"A", "B", "C", "D", "E", "F", "G"}

LowerNotes == {"a", "b", "c", "d", "e", "f", "g"}

NoteLetters == UpperNotes \cup LowerNotes

to_ascii_uppercase(c) ==
    CASE c = "a" -> "A" [] c = "b" -> "B" [] c = "c" -> "C" [] c = "d" -> "D"
      [] c = "e" -> "E" [] c = "f" -> "F" [] c = "g" -> "G" [] OTHER -> c

(* Note::try_from: the note, or "Err".                                     *)
NoteTryFrom(c) ==
    IF to_ascii_uppercase(c) \in UpperNotes THEN to_ascii_uppercase(c) ELSE "Err"

(* Alternatives of regex groups 4 and 5, in the order the regex lists them. *)
QualityAlternatives ==
    << <<"M">>, <<"-">>, <<"+">>, <<"^">>, <<"m">>, <<"o">>, <<"a", "u", "g">>,
       <<"d", "i", "m">>, <<"s", "u", "s">>, <<"a", "d", "d">>, <<"h", "d">> >>

ExtensionAlternatives ==
    << <<"6">>, <<"7">>, <<"9">>, <<"1", "1">>, <<"1", "3">>, <<"5">>, <<"b", "5">> >>

PrefixAt(s, p, tok) ==
    /\ p + Len(tok) - 1 <= Len(s)
    /\ \A i \in 1..Len(tok) : s[p + i - 1] = tok[i]

(* The first alternative matching at p (leftmost-first), or the empty      *)
(* sequence when the optional group does not participate.                  *)
FirstAlternative(s, p, alts) ==
    IF \E i \in 1..Len(alts) : PrefixAt(s, p, alts[i])
    THEN alts[MinOf({i \in 1..Len(alts) : PrefixAt(s, p, alts[i])})]
    ELSE <<>>

(* The closed quality table of Chord::parse, on the text of group 3.       *)
QualityOf(q) ==
    CASE q = <<>> -> "Maj"
      [] q \in {<<"-">>, <<"m">>} -> "Min"
      [] q = <<"7">> -> "Dom7"
      [] q \in {<<"-", "7">>, <<"m", "7">>} -> "Min7"
      [] q \in {<<"^">>, <<"^", "7">>, <<"M", "7">>} -> "Maj7"
      [] q \in {<<"d", "i", "m">>, <<"o">>} -> "Dim"
      [] q \in {<<"d", "i", "m", "7">>, <<"o", "7">>} -> "Dim7"
      [] q = <<"h", "d">> -> "HalfDim"
      [] q = <<"6">> -> "Maj6"
      [] q \in {<<"m", "6">>, <<"-", "6">>} -> "Min6"
      [] OTHER -> "Err"

NoChord ==
    [note |-> "Err", accidental |-> "None", quality |-> "Err", over |-> "None",
     special |-> FALSE, question |-> FALSE]

(* Chord::parse: the regex is unanchored, so the match starts at the first *)
(* note letter of the text; every later group is optional and greedy, so   *)
(* each takes its text when it is there and the rest of s is ignored.      *)
ChordParse(s) ==
    IF ~ \E i \in 1..Len(s) : s[i] \in NoteLetters
    THEN [ok |-> FALSE, chord |-> NoChord]
    ELSE LET i == MinOf({j \in 1..Len(s) : s[j] \in NoteLetters})
             note == NoteTryFrom(s[i])
             hasAcc == i + 1 <= Len(s) /\ s[i + 1] \in {"#", "b"}
             accidental == IF ~hasAcc THEN "None"
                           ELSE IF s[i + 1] = "#" THEN "Sharp" ELSE "Flat"
             p4 == IF hasAcc THEN i + 2 ELSE i + 1
             g4 == FirstAlternative(s, p4, QualityAlternatives)
             p5 == p4 + Len(g4)
             g5 == FirstAlternative(s, p5, ExtensionAlternatives)
             quality == QualityOf(g4 \o g5)
             p6 == p5 + Len(g5)
             hasOver == p6 + 1 <= Len(s) /\ s[p6] = "/" /\ s[p6 + 1] \in NoteLetters
             over == IF hasOver THEN NoteTryFrom(s[p6 + 1]) ELSE "None"
             p7 == IF hasOver THEN p6 + 2 ELSE p6
             special == p7 <= Len(s) /\ s[p7] = "!"
             p8 == IF special THEN p7 + 1 ELSE p7
             question == p8 <= Len(s) /\ s[p8] = "?"
         IN IF quality = "Err"
            THEN [ok |-> FALSE, chord |-> NoChord]
            ELSE [ok |-> TRUE,
                  chord |-> [note |-> note, accidental |-> accidental,
                             quality |-> quality, over |-> over,
                             special |-> special, question |-> question]]

(* impl Display for Accidental.                                            *)
AccidentalText(a) ==
    CASE a = "None" -> <<>> [] a = "Sharp" -> <<"#">> [] a = "Flat" -> <<"b">>

(* impl Display for Quality.                                               *)
QualityText(q) ==
    CASE q = "Maj" -> <<>>
      [] q = "Min" -> <<"-">>
      [] q = "Dom7" -> <<"7">>
      [] q = "Maj7" -> <<"^">>
      [] q = "Min7" -> <<"-", "7">>
      [] q = "Dim" -> <<"o">>
      [] q = "Dim7" -> <<"o", "7">>
      [] q = "HalfDim" -> <<"m", "7", "b", "5">>
      [] q = "Aug" -> <<"+">>
      [] q = "Dom9" -> <<"9">>
      [] q = "Maj9" -> <<"^", "9">>
      [] q = "Min9" -> <<"-", "9">>
      [] q = "Flat9" -> <<"b", "9">>
      [] q = "Sharp9" -> <<"#", "9">>
      [] q = "Maj11" -> <<"^", "1", "1">>
      [] q = "Sharp11" -> <<"#", "1", "1">>
      [] q = "Dom13" -> <<"1", "3">>
      [] q = "Maj13" -> <<"^", "1", "3">>
      [] q = "Flat13" -> <<"b", "1", "3">>
      [] q = "Sus" -> <<"s", "u", "s">>
      [] q = "Sus4" -> <<"s", "u", "s", "4">>
      [] q = "Sus2" -> <<"s", "u", "s", "2">>
      [] q = "Maj6" -> <<"6">>
      [] q = "Min6" -> <<"m", "6">>

(* impl Display for Chord: note, accidental, quality, then "/" and the     *)
(* bass note, "!" and "?" when present.                                    *)
ChordFormat(c) ==
    <<c.note>> \o AccidentalText(c.accidental) \o QualityText(c.quality)
        \o (IF c.over = "None" THEN <<>> ELSE <<"/", c.over>>)
        \o (IF c.special THEN <<"!">> ELSE <<>>)
        \o (IF c.question THEN <<"?">> ELSE <<>>)

-----------------------------------------------------------------------------
(* Screen layout: calc_widths and find_cursor.  A Vec indexed from 0 is a  *)
(* sequence indexed from 1.                                                *)

Max2(a, b) == IF a >= b THEN a ELSE b

(* Variant that measures the chord text without the space appended to it. *)
SlotWidth_noSpace(bar, s) ==
    IF s \in DOMAIN bar.chords THEN Len(ChordFormat(bar.chords[s])) ELSE 2

(* What one subdivision asks of its column: the characters of              *)
(* format!("{} ", chord) when get_chord finds a chord, else 2.             *)
SlotWidth(bar, s) ==
    IF s \in DOMAIN bar.chords THEN Len(ChordFormat(bar.chords[s])) + 1 ELSE 2

(* for subdivision in 0..bar.subdivision                                   *)
RECURSIVE WidthOverSlots(_, _, _)
WidthOverSlots(w, bar, s) ==
    IF s >= bar.subdivision THEN w
    ELSE WidthOverSlots(Max2(SlotWidth(bar, s), w), bar, s + 1)

(* for (i, bar) in section.bars.iter().enumerate()                         *)
RECURSIVE WidthsOverBars(_, _, _)
WidthsOverBars(widths, section, i) ==
    IF i >= Len(section.bars) THEN widths
    ELSE WidthsOverBars(
             [widths EXCEPT ![(i % section.wrap) + 1] =
                 WidthOverSlots(@, section.bars[i + 1], 0)],
             section, i + 1)

calc_widths(section) == WidthsOverBars([c \in 1..section.wrap |-> 0], section, 0)

(* Variant that counts the rows of the section, bars.len() / wrap, in      *)
(* place of (bars.len() - 1) / wrap.                                       *)
SectionRows_noMinusOne(s) == (Len(s.bars) \div s.wrap) + 3

(* What one earlier section adds to ypos.                                  *)
SectionRows(s) == ((Len(s.bars) - 1) \div s.wrap) + 3

(* for s in self.song.sections.iter().take(self.cursor.section)            *)
RECURSIVE RowsBefore(_, _)
RowsBefore(sections, n) ==
    IF n = 0 \/ sections = <<>> THEN 0
    ELSE SectionRows(Head(sections)) + RowsBefore(Tail(sections), n - 1)

(* Variant without the column separator between bars.                      *)
BarAdvance_noSeparator(width, subdivision) == width * subdivision

(* What a bar before the cursor's bar adds to xpos.                        *)
BarAdvance(width, subdivision) == 1 + width * subdivision

(* for i in 0..=self.cursor.bar, from bar i with the position so far.      *)
RECURSIVE FindCursorLoop(_, _, _, _)
FindCursorLoop(st, col_widths, i, pos) ==
    IF i > st.cursor.bar THEN pos
    ELSE LET section == current_section(st)
             wrap == section.wrap
             width == col_widths[(i % wrap) + 1]
             p1 == IF i % wrap = 0 /\ i > 0
                   THEN [pos EXCEPT !.y = pos.y + 1, !.x = 1] ELSE pos
         IN IF i < st.cursor.bar
            THEN IF i >= Len(section.bars)
                 THEN [p1 EXCEPT !.panicked = TRUE]
                 ELSE FindCursorLoop(st, col_widths, i + 1,
                          [p1 EXCEPT !.x = p1.x + BarAdvance(width,
                                                 section.bars[i + 1].subdivision)])
            ELSE FindCursorLoop(st, col_widths, i + 1,
                     [p1 EXCEPT !.x = p1.x + width * st.cursor.subdivision])

(* Where find_cursor panics: a cursor section that does not exist, wrap 0 *)
(* in a section up to the cursor's, an earlier section without bars        *)
(* (bars.len() - 1), or a bar index more than one past the bars (bars[i]   *)
(* for an i below it).                                                     *)
FindCursorPanics(st) ==
    \/ st.cursor.section >= NumSections(st)
    \/ \E n \in 1..st.cursor.section + 1 : Sections(st)[n].wrap = 0
    \/ \E n \in 1..st.cursor.section : Len(Sections(st)[n].bars) = 0
    \/ st.cursor.bar > NumBars(st)

(* (ypos, xpos), or a panic.                                               *)
find_cursor(st) ==
    IF FindCursorPanics(st)
    THEN [y |-> 0, x |-> 0, panicked |-> TRUE]
    ELSE FindCursorLoop(st, calc_widths(current_section(st)), 0,
             [y |-> 2 + RowsBefore(Sections(st), st.cursor.section) + 1,
              x |-> 1, panicked |-> FALSE])

(* draw, as the cells it writes the slots at.  d is the position of the    *)
(* window's write cursor (row y, column x), the cells written so far as    *)
(* <<section, bar, slot, row, column>>, and whether a panic occurred.      *)

(* Variant that counts two rows besides the grid rows of a section.       *)
DrawSectionRows_plusTwo(s) == ((Len(s.bars) - 1) \div s.wrap) + 2

(* What one earlier section adds to draw's ypos.                           *)
DrawSectionRows(s) == ((Len(s.bars) - 1) \div s.wrap) + 3

(* for s in self.song.sections.iter().take(section_i)                      *)
RECURSIVE DrawRowsBefore(_, _)
DrawRowsBefore(sections, n) ==
    IF n = 0 \/ sections = <<>> THEN 0
    ELSE DrawSectionRows(Head(sections)) + DrawRowsBefore(Tail(sections), n - 1)

(* Characters of the text draw prints in slot s before the padding: the    *)
(* formatted chord, "." on the cursor's bar, or nothing.                   *)
DrawSlotText(st, section_i, bar_i, s) ==
    LET bar == Sections(st)[section_i + 1].bars[bar_i + 1] IN
    IF s \in DOMAIN bar.chords THEN Len(ChordFormat(bar.chords[s]))
    ELSE IF st.cursor.section = section_i /\ st.cursor.bar = bar_i THEN 1
    ELSE 0

(* for s in 0..bar.subdivision: the text, then " ".repeat(col_width - its  *)
(* length), which panics when the text is longer than the column.          *)
RECURSIVE DrawSlots(_, _, _, _, _, _)
DrawSlots(st, section_i, bar_i, s, col_width, d) ==
    IF s >= Sections(st)[section_i + 1].bars[bar_i + 1].subdivision THEN d
    ELSE LET text == DrawSlotText(st, section_i, bar_i, s) IN
         IF col_width < text THEN [d EXCEPT !.panicked = TRUE]
         ELSE DrawSlots(st, section_i, bar_i, s + 1, col_width,
                  [d EXCEPT !.cells = @ \cup {<<section_i, bar_i, s, d.y, d.x>>},
                            !.x = d.x + text + (col_width - text)])

(* for (bar_i, bar) in section.bars.iter().enumerate(): a new row before   *)
(* every wrap-th bar, then '|' and the slots.                              *)
RECURSIVE DrawBars(_, _, _, _, _)
DrawBars(st, section_i, bar_i, col_widths, d) ==
    LET section == Sections(st)[section_i + 1] IN
    IF bar_i >= Len(section.bars) \/ d.panicked THEN d
    ELSE LET d1 == IF bar_i % section.wrap = 0 /\ bar_i > 0
                   THEN [d EXCEPT !.y = d.y + 1, !.x = 0] ELSE d
             d2 == [d1 EXCEPT !.x = d1.x + 1]
         IN DrawBars(st, section_i, bar_i + 1, col_widths,
                DrawSlots(st, section_i, bar_i, 0,
                          col_widths[(bar_i % section.wrap) + 1], d2))

(* for (section_i, section) in self.song.sections.iter().enumerate(): the  *)
(* label on its own row, the bars from column 0 of the row below.          *)
RECURSIVE DrawSections(_, _, _)
DrawSections(st, section_i, d) ==
    IF section_i >= NumSections(st) \/ d.panicked THEN d
    ELSE LET ypos == 1 + DrawRowsBefore(Sections(st), section_i) + 1
             d1 == [d EXCEPT !.y = ypos + 1, !.x = 0]
         IN DrawSections(st, section_i + 1,
                DrawBars(st, section_i, 0,
                         calc_widths(Sections(st)[section_i + 1]), d1))

(* The cells draw starts the slots of the song at.                         *)
draw(st) == DrawSections(st, 0, [y |-> 0, x |-> 0, cells |-> {}, panicked |-> FALSE])

-----------------------------------------------------------------------------
(* Chord entry.  Keys are one-character strings for characters and names   *)
(* for the others.                                                         *)

AlnumPunct ==
    NoteLetters \cup {"m", "M", "o", "i", "h", "s", "u", "x", "H",
                      "1", "3", "5", "6", "7", "9",
                      "#", "-", "+", "^", "/", "!", "?",
                      "l", "n", "p", "q", "r", "t", "v", "w", "y", "z"}

Whitespace == {"Space", "Tab", "Enter"}

(* The loop of chord_input over the keys typed after `first`: the buffer   *)
(* and the editor state when the loop finishes.  Keys after the one that   *)
(* finishes the loop are not read by it.                                   *)
RECURSIVE ChordInputLoop(_, _, _)
ChordInputLoop(st, buf, keys) ==
    IF keys = <<>> THEN [st |-> st, buf |-> buf]
    ELSE LET c == Head(keys) IN
         IF c \in AlnumPunct
         THEN ChordInputLoop(st, Append(buf, c), Tail(keys))
         ELSE IF c \in Whitespace
         THEN [st |-> IF c = "Space" THEN next_subdivision(st)
                      ELSE IF c = "Tab" THEN next_or_create_bar(st)
                      ELSE st,
               buf |-> buf]
         ELSE IF c = "Backspace"
         THEN ChordInputLoop(st, IF buf = <<>> THEN buf
                                 ELSE SubSeq(buf, 1, Len(buf) - 1), Tail(keys))
         ELSE [st |-> st, buf |-> buf]

(* find_cursor runs before the loop and can panic.                        *)
chord_input(st, first, keys) ==
    IF FindCursorPanics(st)
    THEN [st |-> [st EXCEPT !.panicked = TRUE], buf |-> <<first>>]
    ELSE ChordInputLoop(st, <<first>>, keys)

input_or_edit_in_place_chord(st, first, keys) ==
    IF NoteTryFrom(first) = "Err" THEN st
    ELSE LET cur == st.cursor
             r == chord_input(st, first, keys)
             parsed == ChordParse(r.buf)
             s1 == r.st
         IN IF s1.panicked \/ ~parsed.ok THEN s1
            ELSE IF cur.bar >= NumBars(s1)
            THEN [s1 EXCEPT !.panicked = TRUE]
            ELSE [s1 EXCEPT !.song.sections[s1.cursor.section + 1]
                                 .bars[cur.bar + 1].chords =
                               MapInsert(@, cur.subdivision, parsed.chord)]

-----------------------------------------------------------------------------
(* The command line.  The buffer is a sequence of characters, " " being    *)
(* the space the loop pushes.  An editor state here carries should_quit,   *)
(* filename and disk besides song, cursor and panicked.  The toast, the    *)
(* clear flag and the window only affect what is drawn.                    *)

RECURSIVE CharsToString(_)
CharsToString(w) == IF w = <<>> THEN "" ELSE Head(w) \o CharsToString(Tail(w))

Pop(buf) == IF buf = <<>> THEN buf ELSE SubSeq(buf, 1, Len(buf) - 1)

(* The "autoexpand stuff" of do_command_line on a space.                   *)
AutoExpand(buf) ==
    CASE buf = <<"t">> -> <<"t", "i", "t", "l", "e", " ">>
      [] buf = <<"q">> -> <<"q", "u", "i", "t">>
      [] buf = <<"s">> -> <<"s", "a", "v", "e", " ">>
      [] buf = <<"e">> -> <<"e", "d", "i", "t", " ">>
      [] buf = <<"p">> -> <<"p", "r", "i", "n", "t">>
      [] buf = <<"n">> -> <<"n", "e", "w">>
      [] OTHER -> IF buf = <<>> THEN buf ELSE Append(buf, " ")

(* The loop of do_command_line: the buffer when it finishes and the keys   *)
(* not read yet.  A key that is not a character, and any character other   *)
(* than those handled, finishes it.                                        *)
RECURSIVE CommandLoop(_, _)
CommandLoop(buf, keys) ==
    IF keys = <<>> THEN [buf |-> buf, rest |-> keys]
    ELSE LET c == Head(keys) IN
         IF c \in AlnumPunct THEN CommandLoop(Append(buf, c), Tail(keys))
         ELSE IF c = "Backspace" THEN CommandLoop(Pop(buf), Tail(keys))
         ELSE IF c = "Space" THEN CommandLoop(AutoExpand(buf), Tail(keys))
         ELSE IF c = "Tab" THEN CommandLoop(buf, Tail(keys))
         ELSE [buf |-> buf, rest |-> Tail(keys)]

(* split_ascii_whitespace: the maximal runs of non-space characters.       *)
RECURSIVE SplitWords(_, _)
SplitWords(buf, word) ==
    IF buf = <<>> THEN (IF word = <<>> THEN <<>> ELSE <<word>>)
    ELSE IF Head(buf) = " "
    THEN (IF word = <<>> THEN <<>> ELSE <<word>>) \o SplitWords(Tail(buf), <<>>)
    ELSE SplitWords(Tail(buf), Append(word, Head(buf)))

(* components.get(1..).unwrap().join(" ")                                  *)
RECURSIVE JoinWords(_)
JoinWords(words) ==
    IF Len(words) = 1 THEN words[1]
    ELSE words[1] \o <<" ">> \o JoinWords(Tail(words))

(* Keys that getch returns as Input::Character.                            *)
CharacterKeys == AlnumPunct \cup {"Space", "Tab", "Enter", "Esc", "Backspace"}

(* prompt_bool: prompt_char with 'y' and 'n' allowed; other characters are *)
(* skipped, a key that is not a character answers None.                    *)
RECURSIVE prompt_bool(_)
prompt_bool(keys) ==
    IF keys = <<>> THEN FALSE
    ELSE IF Head(keys) \in {"y", "n"} THEN Head(keys) = "y"
    ELSE IF Head(keys) \in CharacterKeys THEN prompt_bool(Tail(keys))
    ELSE FALSE

(* prompt_line: Some(buffer) or None when cancelled.                       *)
RECURSIVE PromptLineLoop(_, _)
PromptLineLoop(buf, keys) ==
    IF keys = <<>> THEN [some |-> FALSE, buf |-> buf]
    ELSE LET c == Head(keys) IN
         IF c \in AlnumPunct THEN PromptLineLoop(Append(buf, c), Tail(keys))
         ELSE IF c = "Space" THEN PromptLineLoop(Append(buf, " "), Tail(keys))
         ELSE IF c = "Backspace" THEN PromptLineLoop(Pop(buf), Tail(keys))
         ELSE IF c = "Esc" THEN [some |-> FALSE, buf |-> buf]
         ELSE IF c = "Tab" THEN PromptLineLoop(buf, Tail(keys))
         ELSE IF c \in CharacterKeys THEN [some |-> TRUE, buf |-> buf]
         ELSE [some |-> FALSE, buf |-> buf]

prompt_line(keys) == PromptLineLoop(<<>>, keys)

(* fs::write(..).unwrap(): the write succeeds or the process panics; which *)
(* one is the file system's choice, env.writeOk.                           *)
save_to_disk(st, path, env) ==
    IF env.writeOk THEN [st EXCEPT !.disk = @ \cup {path}]
    ELSE [st EXCEPT !.panicked = TRUE]

(* File::open(..).unwrap() and from_reader(..).unwrap(): env.file is <<>>  *)
(* when the file cannot be opened or read as a song, else <<the song>>.    *)
(* The cursor is left as it is.                                            *)
load_from_disk(st, path, env) ==
    IF env.file = <<>> THEN [st EXCEPT !.panicked = TRUE]
    ELSE [st EXCEPT !.song = env.file[1], !.filename = path]

Word(str) ==
    CASE str = "title" -> <<"t", "i", "t", "l", "e">>
      [] str = "quit" -> <<"q", "u", "i", "t">>
      [] str = "save" -> <<"s", "a", "v", "e">>
      [] str = "edit" -> <<"e", "d", "i", "t">>
      [] str = "print" -> <<"p", "r", "i", "n", "t">>
      [] str = "new" -> <<"n", "e", "w">>

do_command_line(st, keys, env) ==
    LET r == CommandLoop(<<>>, keys)
        components == SplitWords(r.buf, <<>>)
    IN IF r.buf = <<>> \/ components = <<>> THEN st
       ELSE LET first == components[1] IN
            IF first = Word("title") /\ Len(components) >= 2
            THEN [st EXCEPT !.song.title = CharsToString(JoinWords(Tail(components)))]
            ELSE IF first \in {Word("quit"), <<"q">>}
            THEN [st EXCEPT !.should_quit = TRUE]
            ELSE IF first \in {Word("save"), <<"s">>}
            THEN IF Len(components) >= 2
                 THEN save_to_disk([st EXCEPT !.filename = CharsToString(components[2])],
                                   CharsToString(components[2]), env)
                 ELSE IF st.filename # "None"
                 THEN save_to_disk(st, st.filename, env)
                 ELSE LET name == prompt_line(r.rest) IN
                      IF name.some /\ name.buf # <<>>
                      THEN save_to_disk(st, CharsToString(name.buf), env)
                      ELSE st
            ELSE IF first = Word("edit")
            THEN IF Len(components) >= 2
                 THEN load_from_disk(st, CharsToString(components[2]), env)
                 ELSE st
            ELSE IF first \in {Word("print"), <<"p">>}
            THEN st
            ELSE IF first \in {Word("new"), <<"n">>} /\ prompt_bool(r.rest)
            THEN [st EXCEPT !.song = SongNew, !.cursor = CursorDefault,
                            !.filename = "None"]
            ELSE st

-----------------------------------------------------------------------------
(* Deletion and the resize keys.                                           *)

(* First condition of delete_chord_or_empty_bar: the section's only bar   *)
(* is empty and another section exists.                                    *)
(* Variant with >= 1 sections instead of > 1.                              *)
SectionRemovable_lastSection(st) ==
    /\ NumBars(st) = 1
    /\ DOMAIN current_section(st).bars[1].chords = {}
    /\ NumSections(st) >= 1

SectionRemovable(st) ==
    /\ NumBars(st) = 1
    /\ DOMAIN current_section(st).bars[1].chords = {}
    /\ NumSections(st) > 1

(* sections.remove(cursor.section), then the cursor is moved to the        *)
(* section before.  cursor.section -= 1 on 0 is an overflow panic in a     *)
(* debug build; a release build wraps and current_section() panics on the  *)
(* index: either way the process aborts there.                             *)
RemoveSection(st) ==
    LET cur == st.cursor
        removed == [st EXCEPT !.song.sections = RemoveAt(Sections(st), cur.section)]
    IN IF cur.section = 0
       THEN [removed EXCEPT !.panicked = TRUE]
       ELSE LET s1 == [removed EXCEPT !.cursor.section = cur.section - 1]
                s2 == [s1 EXCEPT !.cursor.bar = NumBars(s1) - 1]
            IN IF current_bar(s2).beats = 0
               THEN [s2 EXCEPT !.panicked = TRUE]
               ELSE [s2 EXCEPT !.cursor.subdivision = current_bar(s2).beats - 1]

(* Second condition: the bar under the cursor is empty and not alone.      *)
(* Variant that also removes a bar whose only chord is under the cursor.   *)
BarRemovable_soleChord(st) ==
    /\ DOMAIN current_bar(st).chords \subseteq {st.cursor.subdivision}
    /\ NumBars(st) > 1

BarRemovable(st) ==
    /\ DOMAIN current_bar(st).chords = {}
    /\ NumBars(st) > 1

(* section.bars.remove(cursor.bar), then "put the cursor somewhere nice".  *)
RemoveBar(st) ==
    LET cur == st.cursor
        s1 == [st EXCEPT !.song.sections[cur.section + 1].bars =
                            RemoveAt(current_section(st).bars, cur.bar)]
    IN IF cur.bar >= NumBars(s1)
       THEN IF cur.bar = 0 THEN [s1 EXCEPT !.panicked = TRUE]
            ELSE [s1 EXCEPT !.cursor.bar = cur.bar - 1]
       ELSE s1

RemoveChord(st) ==
    [st EXCEPT !.song.sections[st.cursor.section + 1].bars[st.cursor.bar + 1].chords =
                  MapRemove(@, st.cursor.subdivision)]

delete_chord_or_empty_bar(st) ==
    IF SectionRemovable(st) THEN RemoveSection(st)
    ELSE IF BarRemovable(st) THEN RemoveBar(st)
    ELSE RemoveChord(st)

key_npage(st) ==
    LET r == try_reduce_subdivision(current_bar(st)) IN
    [st EXCEPT !.song.sections[st.cursor.section + 1].bars[st.cursor.bar + 1] = r.bar,
               !.panicked = r.panicked]

key_ppage(st) ==
    [st EXCEPT !.song.sections[st.cursor.section + 1].bars[st.cursor.bar + 1] =
                  double_subdivision(@)]

-----------------------------------------------------------------------------
(* Measures used by the exploration bounds.                                *)

RECURSIVE SumSeq(_)
SumSeq(q) == IF q = <<>> THEN 0 ELSE Head(q) + SumSeq(Tail(q))

BarCount(sg) == SumSeq([i \in 1..Len(sg.sections) |-> Len(sg.sections[i].bars)])

SectionChordCount(sec) ==
    SumSeq([j \in 1..Len(sec.bars) |-> Cardinality(DOMAIN sec.bars[j].chords)])

ChordCount(sg) ==
    SumSeq([i \in 1..Len(sg.sections) |-> SectionChordCount(sg.sections[i])])

(* Resize key presses a bar is away from the default subdivision.         *)
ResizeDistance(subdivision) ==
    CASE subdivision = 4 -> 0
      [] subdivision \in {2, 8} -> 1
      [] subdivision \in {1, 16} -> 2
      [] OTHER -> 3

SectionResizeDistance(sec) ==
    SumSeq([j \in 1..Len(sec.bars) |-> ResizeDistance(sec.bars[j].subdivision)])

SongResizeDistance(sg) ==
    SumSeq([i \in 1..Len(sg.sections) |-> SectionResizeDistance(sg.sections[i])])

(* Size of a song: bars beyond the first, chords, and resizes.             *)
SongSize(sg) == (BarCount(sg) - 1) + ChordCount(sg) + SongResizeDistance(sg)

(* How many slots past the last slot of its bar the cursor stands.         *)
CursorOvershoot(st) ==
    IF \/ st.cursor.section >= Len(st.song.sections)
       \/ st.cursor.bar >= NumBars(st)
       \/ st.cursor.subdivision < current_bar(st).subdivision
    THEN 0
    ELSE st.cursor.subdivision - (current_bar(st).subdivision - 1)

WithinBounds(st) ==
    /\ SongSize(st.song) <= MaxSize
    /\ CursorOvershoot(st) <= MaxOvershoot
    /\ \A i \in 1..Len(st.song.sections) :
          SectionLabelPosition(st.song.sections[i].label) \in 1..MaxLabel

-----------------------------------------------------------------------------
(* Keys typed into chord entry.                                            *)

(* first character, then the keys read by chord_input.                     *)
ChordEntries ==
    { <<"C", <<"Enter">>>>, <<"C", <<"Space">>>>, <<"C", <<"Tab">>>>,
      <<"C", <<"Esc">>>>, <<"C", <<"+", "Enter">>>>,
      <<"C", <<"Backspace", "Enter">>>>, <<"x", <<"Enter">>>> }

-----------------------------------------------------------------------------
(* The event loop of main: one action per key.                             *)

(* main's State literal: should_quit false, filename None.  disk is the   *)
(* set of paths the session has written with save_to_disk.                 *)
InitSession ==
    /\ should_quit = FALSE
    /\ filename = "None"
    /\ disk = {}

(* No function call is under study in the editor sessions.                 *)
InitCall ==
    /\ arg = "None"
    /\ ret = "None"

Init ==
    /\ song = SongNew
    /\ cursor = CursorDefault
    /\ panicked = FALSE
    /\ calls = 0
    /\ InitSession
    /\ InitCall

(* The process runs while it has not panicked; r is the state after the   *)
(* handler, kept when it lies within the exploration bounds.               *)
Becomes(r) ==
    /\ song' = r.song
    /\ cursor' = r.cursor
    /\ panicked' = r.panicked

KeyTab ==
    LET r == next_or_create_bar(St) IN
    /\ ~panicked
    /\ WithinBounds(r)
    /\ Becomes(r)
    /\ UNCHANGED <<calls, session, call>>

KeyRight ==
    LET r == next_subdivision(St) IN
    /\ ~panicked
    /\ WithinBounds(r)
    /\ Becomes(r)
    /\ UNCHANGED <<calls, session, call>>

KeyS ==
    LET r == next_or_create_section(St) IN
    /\ ~panicked
    /\ WithinBounds(r)
    /\ Becomes(r)
    /\ UNCHANGED <<calls, session, call>>

KeyChar ==
    \E e \in ChordEntries :
        LET r == input_or_edit_in_place_chord(St, e[1], e[2]) IN
        /\ ~panicked
        /\ WithinBounds(r)
        /\ Becomes(r)
        /\ UNCHANGED <<calls, session, call>>

KeyDC ==
    LET r == delete_chord_or_empty_bar(St) IN
    /\ ~panicked
    /\ WithinBounds(r)
    /\ Becomes(r)
    /\ UNCHANGED <<calls, session, call>>

KeyNPage ==
    LET r == key_npage(St) IN
    /\ ~panicked
    /\ WithinBounds(r)
    /\ Becomes(r)
    /\ UNCHANGED <<calls, session, call>>

KeyPPage ==
    LET r == key_ppage(St) IN
    /\ ~panicked
    /\ WithinBounds(r)
    /\ Becomes(r)
    /\ UNCHANGED <<calls, session, call>>

KeyF3 ==
    LET r == prev_bar(St) IN
    /\ ~panicked
    /\ WithinBounds(r)
    /\ Becomes(r)
    /\ UNCHANGED <<calls, session, call>>

KeyLeft ==
    LET r == prev_subdivision(St) IN
    /\ ~panicked
    /\ WithinBounds(r)
    /\ Becomes(r)
    /\ UNCHANGED <<calls, session, call>>

KeyUp ==
    LET r == key_up(St) IN
    /\ ~panicked
    /\ WithinBounds(r)
    /\ Becomes(r)
    /\ UNCHANGED <<calls, session, call>>

KeyDown ==
    LET r == key_down(St) IN
    /\ ~panicked
    /\ WithinBounds(r)
    /\ Becomes(r)
    /\ UNCHANGED <<calls, session, call>>

Next ==
    \/ KeyTab
    \/ KeyRight
    \/ KeyS
    \/ KeyChar
    \/ KeyDC
    \/ KeyNPage
    \/ KeyPPage
    \/ KeyF3
    \/ KeyLeft
    \/ KeyUp
    \/ KeyDown

Spec == Init /\ [][Next]_vars

-----------------------------------------------------------------------------
(* next_subdivision called repeatedly on a one-section, one-bar song with  *)
(* one occupied slot, from any valid cursor, until the song grows.         *)

ChordC == ChordParse(<<"C">>).chord

OneChordSong(subdivision, key) ==
    [SongNew EXCEPT !.sections[1].bars[1] =
        [beats |-> DefaultBeats, subdivision |-> subdivision,
         chords |-> MapInsert(EmptyMap, key, ChordC)]]

InitOneBar ==
    /\ \E subdivision \in {1, 2, 4, 8, 16} :
          \E key \in 0..subdivision - 1, k \in 0..subdivision - 1 :
              /\ song = OneChordSong(subdivision, key)
              /\ cursor = [section |-> 0, bar |-> 0, subdivision |-> k]
    /\ panicked = FALSE
    /\ calls = 0
    /\ InitSession
    /\ InitCall

NextSubdivisionCall ==
    LET r == next_subdivision(St) IN
    /\ ~panicked
    /\ BarCount(song) = 1
    /\ Becomes(r)
    /\ calls' = calls + 1
    /\ UNCHANGED <<session, call>>

SpecOneBar == InitOneBar /\ [][NextSubdivisionCall]_vars /\ WF_vars(NextSubdivisionCall)

-----------------------------------------------------------------------------
(* Sessions that begin with the default song or with `edit <path>` typed   *)
(* as the first command: load_from_disk replaces the song and leaves the   *)
(* cursor at its default.                                                  *)

LoadedSong(label) ==
    [title |-> "loaded",
     sections |-> <<[label |-> label,
                     bars |-> <<BarNew(3, 8), BarNew(5, 2)>>,
                     repeats |-> FALSE, wrap |-> 2]>>]

LoadedLabels == {"O", "P", "?", "Intro"}

InitLoaded ==
    /\ song \in {SongNew} \cup {LoadedSong(l) : l \in LoadedLabels}
    /\ cursor = CursorDefault
    /\ panicked = FALSE
    /\ calls = 0
    /\ InitSession
    /\ InitCall

LoadedKeyS ==
    LET r == next_or_create_section(St) IN
    /\ ~panicked
    /\ Len(r.song.sections) <= MaxLoadedSections
    /\ Becomes(r)
    /\ UNCHANGED <<calls, session, call>>

LoadedKeyF3 ==
    LET r == prev_bar(St) IN
    /\ ~panicked
    /\ Becomes(r)
    /\ UNCHANGED <<calls, session, call>>

LoadedKeyLeft ==
    LET r == prev_subdivision(St) IN
    /\ ~panicked
    /\ Becomes(r)
    /\ UNCHANGED <<calls, session, call>>

LoadedKeyDC ==
    LET r == delete_chord_or_empty_bar(St) IN
    /\ ~panicked
    /\ Becomes(r)
    /\ UNCHANGED <<calls, session, call>>

NextLoaded ==
    \/ LoadedKeyS
    \/ LoadedKeyF3
    \/ LoadedKeyLeft
    \/ LoadedKeyDC

SpecLoaded == InitLoaded /\ [][NextLoaded]_vars

-----------------------------------------------------------------------------
(* Properties of the editor reached from the default song.                 *)

CurSection == song.sections[cursor.section + 1]

CurBar == CurSection.bars[cursor.bar + 1]

CursorAddressesBar ==
    /\ cursor.section < Len(song.sections)
    /\ cursor.bar < Len(CurSection.bars)

CursorValid ==
    /\ CursorAddressesBar
    /\ cursor.subdivision < CurBar.subdivision

(* C1: after any sequence of editor operations on the default song the    *)
(* cursor addresses an existing slot: section, bar and subdivision index   *)
(* are all in range.                                                       *)
C1_CursorAddressesSlot == CursorValid

(* C2: after any sequence of editor operations on the default song every  *)
(* key of every bar's chord map is below that bar's subdivision.           *)
C2_ChordKeysBelowSubdivision ==
    \A i \in 1..Len(song.sections) :
        \A j \in 1..Len(song.sections[i].bars) :
            \A k \in DOMAIN song.sections[i].bars[j].chords :
                k < song.sections[i].bars[j].subdivision

(* C3: the song always has at least one section, every section has at     *)
(* least one bar and wrap >= 1, and every bar's subdivision is one of      *)
(* 1, 2, 4, 8, 16.                                                         *)
C3_StructuralInvariant ==
    /\ Len(song.sections) >= 1
    /\ \A i \in 1..Len(song.sections) :
          /\ Len(song.sections[i].bars) >= 1
          /\ song.sections[i].wrap >= 1
          /\ \A j \in 1..Len(song.sections[i].bars) :
                song.sections[i].bars[j].subdivision \in {1, 2, 4, 8, 16}

(* The bar under the cursor stands at the upper limit 16, where a further  *)
(* doubling key meets the limit.                                           *)
C3_Witness ==
    \E i \in 1..Len(song.sections) :
        \E j \in 1..Len(song.sections[i].bars) :
            /\ song.sections[i].bars[j].subdivision = 16
            /\ cursor.section = i - 1
            /\ cursor.bar = j - 1
            /\ ~panicked

(* C4: in a one-section, one-bar song with one occupied slot, calling     *)
(* next_subdivision repeatedly from any valid cursor appends a new bar to  *)
(* the section after at most as many calls as the bar has subdivisions,    *)
(* and in every state on the way the cursor's subdivision index is below   *)
(* the subdivision of the bar it is in.                                    *)
C4_NextSubdivisionGrows ==
    /\ [](/\ CursorValid
          /\ ~panicked
          /\ Len(song.sections) = 1
          /\ Len(song.sections[1].bars) = 1 =>
                calls < song.sections[1].bars[1].subdivision
          /\ Len(song.sections[1].bars) > 1 =>
                /\ Len(song.sections[1].bars) = 2
                /\ calls <= song.sections[1].bars[1].subdivision)
    /\ <>(Len(song.sections[1].bars) = 2)

(* The bar was appended by the sixteenth call, from slot 0 of a bar of 16. *)
C4_Witness ==
    /\ Len(song.sections[1].bars) = 2
    /\ song.sections[1].bars[1].subdivision = 16
    /\ calls = 16
    /\ cursor = [section |-> 0, bar |-> 1, subdivision |-> 0]

CursorAt(sec, bar, sub) == [section |-> sec, bar |-> bar, subdivision |-> sub]

(* C5: next_or_create_bar from a valid cursor (s, b, k).  b not the last  *)
(* bar of s: the cursor becomes (s, b+1, 0) and the song is unchanged.  b  *)
(* the last bar of the last section: exactly one bar with no chords and    *)
(* the beats and subdivision of that last bar is appended to section s and *)
(* the cursor becomes (s, b+1, 0).  b the last bar of a non-last section:  *)
(* the cursor becomes (s+1, 0, 0) and the song is unchanged.               *)
C5_Post ==
    LET s == cursor.section
        b == cursor.bar
        bars == CurSection.bars
    IN IF b + 1 < Len(bars)
       THEN cursor' = CursorAt(s, b + 1, 0) /\ song' = song
       ELSE IF s + 1 = Len(song.sections)
       THEN /\ cursor' = CursorAt(s, b + 1, 0)
            /\ song' = [song EXCEPT !.sections[s + 1].bars =
                           Append(bars, [beats |-> bars[b + 1].beats,
                                         subdivision |-> bars[b + 1].subdivision,
                                         chords |-> EmptyMap])]
       ELSE cursor' = CursorAt(s + 1, 0, 0) /\ song' = song

C5_NextOrCreateBar == [][(KeyTab /\ CursorValid) => C5_Post]_vars

(* A bar cloned from a resized last bar has been appended and the cursor   *)
(* stands on its first slot.                                               *)
C5_Witness ==
    /\ Len(song.sections) = 1
    /\ Len(song.sections[1].bars) = 2
    /\ song.sections[1].bars[1].subdivision = 8
    /\ song.sections[1].bars[2] = BarNew(4, 8)
    /\ cursor = CursorAt(0, 1, 0)

(* C6: delete_chord_or_empty_bar with the cursor in a section whose only  *)
(* bar has no chords, while the song has more than one section: that       *)
(* section is removed, the other sections are unchanged and in order, and  *)
(* the cursor ends on an existing slot of the last bar of the section that *)
(* preceded the removed one.                                               *)
C6_Pre ==
    /\ CursorValid
    /\ Len(CurSection.bars) = 1
    /\ DOMAIN CurSection.bars[1].chords = {}
    /\ Len(song.sections) > 1

C6_Post ==
    /\ ~panicked'
    /\ song'.sections = RemoveAt(song.sections, cursor.section)
    /\ cursor.section >= 1
    /\ cursor'.section = cursor.section - 1
    /\ cursor'.bar = Len(song.sections[cursor.section].bars) - 1
    /\ cursor'.subdivision < Last(song.sections[cursor.section].bars).subdivision

C6_DeleteEmptySection == [][(KeyDC /\ C6_Pre) => C6_Post]_vars

(* C7: delete on the sole occupied slot of a bar that is not the only bar *)
(* of its section removes that bar from the section and leaves the         *)
(* cursor's bar index within the range of the remaining bars.              *)
C7_PreSoleChord ==
    /\ CursorValid
    /\ DOMAIN CurBar.chords = {cursor.subdivision}
    /\ Len(CurSection.bars) > 1

C7_BarRemoved ==
    /\ song' = [song EXCEPT !.sections[cursor.section + 1].bars =
                   RemoveAt(CurSection.bars, cursor.bar)]
    /\ cursor'.section = cursor.section
    /\ cursor'.bar < Len(CurSection.bars) - 1

C7_DeleteSoleChordRemovesBar == [][(KeyDC /\ C7_PreSoleChord) => C7_BarRemoved]_vars

(* C7 as amended: delete on the sole occupied slot of a bar that is not   *)
(* the only bar of its section removes only that chord: the bar stays,     *)
(* with no chords, and the cursor is unchanged.  Delete on a bar with no   *)
(* chords that is not the only bar of its section removes that bar and     *)
(* leaves the cursor's bar index within the range of the remaining bars.   *)
C7_PreEmptyBar ==
    /\ CursorValid
    /\ DOMAIN CurBar.chords = {}
    /\ Len(CurSection.bars) > 1

C7_ChordRemoved ==
    /\ song' = [song EXCEPT !.sections[cursor.section + 1].bars[cursor.bar + 1].chords =
                   EmptyMap]
    /\ cursor' = cursor

C7_DeleteChordThenBar ==
    [][/\ (KeyDC /\ C7_PreSoleChord) => C7_ChordRemoved
       /\ (KeyDC /\ C7_PreEmptyBar) => C7_BarRemoved]_vars

(* The cursor stands on the sole chord of the second of two bars.          *)
C7_Witness ==
    /\ C7_PreSoleChord
    /\ cursor.bar = 1
    /\ ~panicked

(* C8: delete on a song with exactly one section that has exactly one bar *)
(* with no chords leaves the song and the cursor unchanged.                *)
C8_Pre ==
    /\ Len(song.sections) = 1
    /\ Len(song.sections[1].bars) = 1
    /\ DOMAIN song.sections[1].bars[1].chords = {}

C8_DeleteOnEmptySongIsNoOp == [][(KeyDC /\ C8_Pre) => UNCHANGED <<song, cursor>>]_vars

(* The one-bar, chord-free, one-section song with the cursor moved off the *)
(* first slot of a resized bar.                                            *)
C8_Witness ==
    /\ C8_Pre
    /\ cursor.subdivision = 5
    /\ song.sections[1].bars[1].subdivision = 8
    /\ ~panicked

(* C9: next_or_create_section with no later section appends exactly one  *)
(* section: its wrap is the previously last section's wrap, it holds one   *)
(* bar with no chords and the beats and subdivision of the previously last *)
(* section's last bar, its label is the symbol following the previously    *)
(* last label in A..P, or "?" when that label is P or not in A..P, and the *)
(* cursor becomes (new section index, 0, 0).                               *)
C9_ExpectedLabel(label) ==
    IF \E i \in 1..15 : SECTION_LABELS[i] = label
    THEN SECTION_LABELS[(CHOOSE i \in 1..15 : SECTION_LABELS[i] = label) + 1]
    ELSE "?"

C9_Pre ==
    /\ CursorAddressesBar
    /\ cursor.section + 1 = Len(song.sections)

C9_Post ==
    LET n == Len(song.sections)
        prev == song.sections[n]
        new == song'.sections[n + 1]
    IN /\ Len(song'.sections) = n + 1
       /\ SubSeq(song'.sections, 1, n) = song.sections
       /\ song'.title = song.title
       /\ new.wrap = prev.wrap
       /\ new.bars = <<[beats |-> Last(prev.bars).beats,
                        subdivision |-> Last(prev.bars).subdivision,
                        chords |-> EmptyMap]>>
       /\ new.label = C9_ExpectedLabel(prev.label)
       /\ cursor' = CursorAt(n, 0, 0)

C9_CreateSection == [][(LoadedKeyS /\ C9_Pre) => C9_Post]_vars

(* A section labelled "?" has been appended after one labelled "P", with   *)
(* one bar cloned from the last bar of the loaded section.                 *)
C9_Witness ==
    /\ Len(song.sections) = 2
    /\ song.sections[1].label = "P"
    /\ song.sections[2].label = "?"
    /\ song.sections[2].bars = <<BarNew(5, 2)>>
    /\ cursor = CursorAt(1, 0, 0)

(* C10: prev_bar with the cursor at bar 0, subdivision 0 of a section     *)
(* that has a previous section moves the cursor to the previous section    *)
(* with the bar index equal to that section's bar count.                   *)
C10_Pre ==
    /\ CursorValid
    /\ cursor.section > 0
    /\ cursor.bar = 0
    /\ cursor.subdivision = 0

C10_PrevBarOnePastEnd ==
    [][(KeyF3 /\ C10_Pre) =>
          /\ cursor'.section = cursor.section - 1
          /\ cursor'.bar = Len(song.sections[cursor.section].bars)]_vars

(* C10 as amended: the cursor moves to the previous section with the bar  *)
(* index equal to that section's bar count minus one (its last bar), the   *)
(* subdivision index stays 0 and the song is unchanged.                    *)
C10_PrevBarLastBar ==
    [][(KeyF3 /\ C10_Pre) =>
          /\ cursor' = CursorAt(cursor.section - 1,
                                Len(song.sections[cursor.section].bars) - 1, 0)
          /\ song' = song]_vars

(* The cursor stands on the first slot of the last of two bars of section  *)
(* 0 while a later section exists.                                         *)
C10_Witness ==
    /\ Len(song.sections) = 2
    /\ Len(song.sections[1].bars) = 2
    /\ cursor = CursorAt(0, 1, 0)
    /\ ~panicked

-----------------------------------------------------------------------------
(* The Bar methods called on one bar: arg is the bar as it was given, ret  *)
(* the bar after the calls made so far, the bool the last                  *)
(* try_reduce_subdivision returned, and the calls in order.                *)

NotesInOrder == <<"A", "B", "C", "D", "E", "F", "G">>

(* A different chord for every key, so that a chord shows where it came    *)
(* from.                                                                   *)
ChordOfKey(k) ==
    [note |-> NotesInOrder[(k % 7) + 1],
     accidental |-> IF k < 7 THEN "None" ELSE IF k < 14 THEN "Sharp" ELSE "Flat",
     quality |-> "Maj",
     over |-> "None", special |-> FALSE, question |-> FALSE]

(* Bars of a document: a subdivision the resize keys produce and chords at *)
(* any keys (the editor can leave keys at or past the subdivision).        *)
BarInputs ==
    { [beats |-> DefaultBeats, subdivision |-> sub,
       chords |-> [k \in keys |-> ChordOfKey(k)]] :
          sub \in {1, 2, 4, 8, 16}, keys \in SUBSET (0..MaxBarKey) }

InitBar ==
    /\ song = SongNew
    /\ cursor = CursorDefault
    /\ panicked = FALSE
    /\ calls = 0
    /\ InitSession
    /\ arg \in BarInputs
    /\ ret = [bar |-> arg, ok |-> FALSE, panicked |-> FALSE, ops |-> <<>>]

BarReduce ==
    LET r == try_reduce_subdivision(ret.bar) IN
    /\ ~ret.panicked
    /\ Len(ret.ops) < MaxOps
    /\ ret' = [bar |-> r.bar, ok |-> r.ok, panicked |-> r.panicked,
               ops |-> Append(ret.ops, "reduce")]
    /\ UNCHANGED <<song, cursor, panicked, calls, session, arg>>

BarDouble ==
    /\ ~ret.panicked
    /\ Len(ret.ops) < MaxOps
    /\ ret' = [ret EXCEPT !.bar = double_subdivision(ret.bar),
                          !.ops = Append(ret.ops, "double")]
    /\ UNCHANGED <<song, cursor, panicked, calls, session, arg>>

NextBar ==
    \/ BarReduce
    \/ BarDouble

SpecBar == InitBar /\ [][NextBar]_vars

Occupied(bar) == Cardinality(DOMAIN bar.chords)

(* C11: try_reduce_subdivision returns false and leaves the bar           *)
(* (subdivision and chord map) unchanged when the subdivision is 1 or the  *)
(* number of occupied slots exceeds subdivision/2; otherwise it returns    *)
(* true, the new subdivision is exactly half the old one and at least the  *)
(* number of slots occupied before the call.                               *)
C11_ReduceContract ==
    [][BarReduce =>
          IF ret.bar.subdivision = 1
             \/ Occupied(ret.bar) > ret.bar.subdivision \div 2
          THEN /\ ~ret'.ok
               /\ ret'.bar = ret.bar
          ELSE /\ ret'.ok
               /\ 2 * ret'.bar.subdivision = ret.bar.subdivision
               /\ ret'.bar.beats = ret.bar.beats
               /\ ret'.bar.subdivision >= Occupied(ret.bar)]_vars

(* A first reduction from 8 to 4 succeeded with three chords kept apart,   *)
(* and a second one was refused because three chords do not fit in 2.      *)
C11_Witness ==
    /\ ret.ops = <<"reduce", "reduce">>
    /\ arg.subdivision = 8
    /\ ret.bar.subdivision = 4
    /\ Occupied(ret.bar) = 3
    /\ ~ret.ok

(* C12: after a successful try_reduce_subdivision the chord map is what   *)
(* inserting each old chord at key k/2, in ascending order of k, into an   *)
(* empty map gives: the new keys are exactly the halves of the old keys,   *)
(* each new key j holds the chord of the largest old key k with k/2 = j,   *)
(* and the remapping never fails on a missing key.                         *)
C12_ReduceRemap ==
    [][BarReduce =>
          /\ ~ret'.panicked
          /\ ret'.ok =>
                LET old == ret.bar.chords IN
                ret'.bar.chords =
                    [j \in {k \div 2 : k \in DOMAIN old} |->
                        old[MaxOf({k \in DOMAIN old : k \div 2 = j})]]]_vars

(* Keys 1 and 2 went to 0 and 1 and keys 2 and 3 merged onto key 1, which  *)
(* holds the chord that was at 3.                                          *)
C12_Witness ==
    /\ ret.ops = <<"reduce">>
    /\ ret.ok
    /\ DOMAIN arg.chords = {1, 2, 3}
    /\ DOMAIN ret.bar.chords = {0, 1}
    /\ ret.bar.chords[0] = ChordOfKey(1)
    /\ ret.bar.chords[1] = ChordOfKey(3)

KeysBelowSubdivision(bar) == \A k \in DOMAIN bar.chords : k < bar.subdivision

(* C13: for every bar whose subdivision is in {1,2,4,8,16} and whose      *)
(* chord keys are all below its subdivision, double_subdivision followed   *)
(* by try_reduce_subdivision yields a bar equal to the original.           *)
C13_DoubleThenReduce ==
    (ret.ops = <<"double", "reduce">> /\ KeysBelowSubdivision(arg)) => ret.bar = arg

(* C13 as amended: for every bar whose subdivision is in {1,2,4,8} and    *)
(* whose chord keys are all below its subdivision, double_subdivision      *)
(* followed by try_reduce_subdivision succeeds and yields a bar equal to   *)
(* the original; at subdivision 16 double_subdivision leaves the bar as it *)
(* is, and the pair yields the original bar when it holds more than 8      *)
(* chords and otherwise the bar halved to subdivision 8.                   *)
C13_DoubleThenReduceBelowLimit ==
    (ret.ops = <<"double", "reduce">> /\ KeysBelowSubdivision(arg)) =>
        IF arg.subdivision < 16
        THEN ret.ok /\ ret.bar = arg
        ELSE IF Occupied(arg) > 8
        THEN ~ret.ok /\ ret.bar = arg
        ELSE /\ ret.ok
             /\ ret.bar.subdivision = 8
             /\ ret.bar.beats = arg.beats
             /\ DOMAIN ret.bar.chords = {k \div 2 : k \in DOMAIN arg.chords}

(* A bar of 4 with chords on slots 1 and 3 came back as it was.            *)
C13_Witness ==
    /\ ret.ops = <<"double", "reduce">>
    /\ arg.subdivision = 4
    /\ DOMAIN arg.chords = {1, 3}
    /\ ret.bar = arg
    /\ ret.ok

-----------------------------------------------------------------------------
(* A chord formatted and parsed back: arg is the chord, ret the text       *)
(* format!("{}", chord) gives and what Chord::parse makes of it.           *)

(* The qualities Chord::parse can produce.                                 *)
ParserQualities ==
    {"Maj", "Min", "Dom7", "Min7", "Maj7", "Dim", "Dim7", "HalfDim", "Maj6", "Min6"}

SupportedChords ==
    [note : UpperNotes, accidental : {"None", "Sharp", "Flat"},
     quality : ParserQualities, over : UpperNotes \cup {"None"},
     special : BOOLEAN, question : BOOLEAN]

InitFormat ==
    /\ song = SongNew
    /\ cursor = CursorDefault
    /\ panicked = FALSE
    /\ calls = 0
    /\ InitSession
    /\ arg \in SupportedChords
    /\ ret = [done |-> FALSE, text |-> <<>>, parsed |-> [ok |-> FALSE, chord |-> NoChord]]

FormatThenParse ==
    /\ ~ret.done
    /\ ret' = [done |-> TRUE, text |-> ChordFormat(arg),
               parsed |-> ChordParse(ChordFormat(arg))]
    /\ UNCHANGED <<song, cursor, panicked, calls, session, arg>>

SpecFormat == InitFormat /\ [][FormatThenParse]_vars

(* C14: for every chord whose quality is one the parser supports, with    *)
(* any note, accidental, optional bass note and flags, parsing the chord's *)
(* formatted text succeeds and yields a chord equal to it field by field.  *)
C14_FormatParseRoundTrip ==
    ret.done => (ret.parsed.ok /\ ret.parsed.chord = arg)

-----------------------------------------------------------------------------
(* Chord::parse called on a text: arg is the text, ret the result.         *)

TextAlphabet == {"C", "x", "b", "m", "7", "5", "/", "!"}

TextsOfLen(n) == [1..n -> TextAlphabet]

InitParse ==
    /\ song = SongNew
    /\ cursor = CursorDefault
    /\ panicked = FALSE
    /\ calls = 0
    /\ InitSession
    /\ \E n \in 1..MaxTextLen : arg \in TextsOfLen(n)
    /\ ret = [done |-> FALSE, parsed |-> [ok |-> FALSE, chord |-> NoChord]]

ParseText ==
    /\ ~ret.done
    /\ ret' = [done |-> TRUE, parsed |-> ChordParse(arg)]
    /\ UNCHANGED <<song, cursor, panicked, calls, session, arg>>

SpecParse == InitParse /\ [][ParseText]_vars

(* The quality tokens of the closed table.                                 *)
C15_TableTokens ==
    { <<>>, <<"-">>, <<"m">>, <<"7">>, <<"-", "7">>, <<"m", "7">>, <<"^">>,
      <<"^", "7">>, <<"M", "7">>, <<"d", "i", "m">>, <<"o">>,
      <<"d", "i", "m", "7">>, <<"o", "7">>, <<"h", "d">>, <<"6">>,
      <<"m", "6">>, <<"-", "6">> }

(* The text is a note letter, an optional accidental, a table token, an    *)
(* optional bass note and the optional flags, and nothing else.            *)
C15_InGrammar(s) ==
    /\ Len(s) >= 1
    /\ s[1] \in NoteLetters
    /\ \E a \in {<<>>, <<"#">>, <<"b">>}, q \in C15_TableTokens,
          o \in {<<>>} \cup {<<"/", n>> : n \in NoteLetters},
          x \in {<<>>, <<"!">>}, y \in {<<>>, <<"?">>} :
            s = <<s[1]>> \o a \o q \o o \o x \o y

(* C15: Chord::parse fails for every text whose leading character is not  *)
(* a note letter and for every text whose quality substring is not a token *)
(* of the closed table; it accepts no text that carries characters beyond  *)
(* the grammar.                                                            *)
C15_ParseRejectsOutsideGrammar ==
    (ret.done /\ ret.parsed.ok) => C15_InGrammar(arg)

-----------------------------------------------------------------------------
(* Sessions of chord entry and command lines.  arg is what was typed into  *)
(* the last sub-loop, ret the buffer it was left with and the key that     *)
(* finished it.                                                            *)

Ed == [song |-> song, cursor |-> cursor, panicked |-> panicked,
       should_quit |-> should_quit, filename |-> filename, disk |-> disk]

BecomesEd(r) ==
    /\ Becomes(r)
    /\ should_quit' = r.should_quit
    /\ filename' = r.filename
    /\ disk' = r.disk

(* The first key the loop does not continue on.                            *)
RECURSIVE Finisher(_, _)
Finisher(keys, continuing) ==
    IF keys = <<>> THEN "None"
    ELSE IF Head(keys) \in continuing THEN Finisher(Tail(keys), continuing)
    ELSE Head(keys)

ChordFinisher(keys) == Finisher(keys, AlnumPunct \cup {"Backspace"})

CommandFinisher(keys) == Finisher(keys, AlnumPunct \cup {"Backspace", "Space", "Tab"})

(* first character, then the keys read by chord_input.                     *)
EntryTexts ==
    { <<"C", <<"Enter">>>>, <<"C", <<"Esc">>>>, <<"C", <<"Space">>>>,
      <<"C", <<"Tab">>>>, <<"C", <<"9", "Enter">>>>, <<"C", <<"9", "Esc">>>>,
      <<"C", <<"9", "Space">>>>, <<"C", <<"9", "Tab">>>>, <<"x", <<"Enter">>>> }

(* Keys typed after ':', the answers to a prompt included.                 *)
CommandEntries ==
    { <<"Esc">>, <<"q", "Enter">>, <<"q", "Esc">>, <<"q", "Space", "Enter">>,
      <<"t", "Space", "x", "Enter">>, <<"t", "Space", "x", "Esc">>,
      <<"s", "Space", "f", "Enter">>, <<"s", "Space", "f", "Esc">>,
      <<"s", "Enter", "f", "Enter">>, <<"e", "Space", "f", "Enter">>,
      <<"e", "Space", "f", "Esc">>, <<"p", "Enter">>,
      <<"n", "Enter", "y">>, <<"n", "Esc", "y">>, <<"n", "Enter", "n">> }

(* What the file system does with a write and holds for a read.            *)
Environments ==
    { [writeOk |-> TRUE, file |-> <<LoadedSong("P")>>],
      [writeOk |-> FALSE, file |-> <<>>] }

EntrySize(sg) == BarCount(sg) + ChordCount(sg)

WithinEntryBounds(st) ==
    /\ EntrySize(st.song) <= MaxEntrySize
    /\ CursorOvershoot(st) <= MaxOvershoot

InitEntry ==
    /\ song = SongNew
    /\ cursor = CursorDefault
    /\ panicked = FALSE
    /\ calls = 0
    /\ InitSession
    /\ arg = [op |-> "none", keys |-> <<>>]
    /\ ret = [buf |-> <<>>, finisher |-> "None"]

EntryKeyChar ==
    \E e \in EntryTexts :
        LET r == input_or_edit_in_place_chord(Ed, e[1], e[2]) IN
        /\ ~panicked
        /\ ~should_quit
        /\ WithinEntryBounds(r)
        /\ BecomesEd(r)
        /\ arg' = [op |-> IF NoteTryFrom(e[1]) = "Err" THEN "ignored" ELSE "chord",
                   keys |-> <<e[1]>> \o e[2]]
        /\ ret' = [buf |-> chord_input(Ed, e[1], e[2]).buf,
                   finisher |-> ChordFinisher(e[2])]
        /\ UNCHANGED calls

EntryKeyColon ==
    \E keys \in CommandEntries, env \in Environments :
        LET r == do_command_line(Ed, keys, env) IN
        /\ ~panicked
        /\ ~should_quit
        /\ WithinEntryBounds(r)
        /\ BecomesEd(r)
        /\ arg' = [op |-> "command", keys |-> keys]
        /\ ret' = [buf |-> CommandLoop(<<>>, keys).buf,
                   finisher |-> CommandFinisher(keys)]
        /\ UNCHANGED calls

NextEntry ==
    \/ EntryKeyChar
    \/ EntryKeyColon

SpecEntry == InitEntry /\ [][NextEntry]_vars

(* C16: when the text typed during chord entry fails to parse, no slot of *)
(* any bar is modified and the document (sections, bars and chord maps) is *)
(* the same as before the entry began, whichever key ended the entry.      *)
C16_FailedEntryKeepsDocument ==
    [][(EntryKeyChar /\ arg'.op = "chord" /\ ~ChordParse(ret'.buf).ok) =>
          song'.sections = song.sections]_vars

(* C17: escape during the chord-entry or the command-entry sub-loop       *)
(* aborts it without committing its buffer: no chord is stored, no command *)
(* is executed, and the song, cursor, filename and quit flag are as they   *)
(* were when the sub-loop started.                                         *)
C17_EscapeAborts ==
    [][((EntryKeyChar \/ EntryKeyColon)
          /\ arg'.op \in {"chord", "command"} /\ ret'.finisher = "Esc") =>
          UNCHANGED <<song, cursor, filename, should_quit>>]_vars

-----------------------------------------------------------------------------
(* calc_widths and find_cursor called on a song and a valid cursor: ret is *)
(* what the call returned.                                                 *)

LongChord ==
    [note |-> "F", accidental |-> "Sharp", quality |-> "Min7", over |-> "E",
     special |-> TRUE, question |-> TRUE]

(* An empty bar of one slot; a bar of two slots with a short chord on the  *)
(* second; a bar of two slots with a long chord on the first and a chord   *)
(* left at a key past its subdivision.                                     *)
LayoutBars ==
    { BarNew(DefaultBeats, 1),
      [beats |-> DefaultBeats, subdivision |-> 2,
       chords |-> MapInsert(EmptyMap, 1, ChordC)],
      [beats |-> DefaultBeats, subdivision |-> 2,
       chords |-> MapInsert(MapInsert(EmptyMap, 0, LongChord), 3, LongChord)] }

LayoutWraps == {1, 2, 3}

LayoutSections ==
    { [label |-> "C", bars |-> bars, repeats |-> FALSE, wrap |-> wrap] :
        bars \in UNION {[1..n -> LayoutBars] : n \in 1..MaxLayoutBars},
        wrap \in LayoutWraps }

(* Sections before the one laid out: bar count and wrap are what counts.   *)
EarlierSection(n, wrap) ==
    [label |-> "A", bars |-> [j \in 1..n |-> BarNew(DefaultBeats, 1)],
     repeats |-> FALSE, wrap |-> wrap]

EarlierSections ==
    { EarlierSection(1, 1), EarlierSection(2, 2), EarlierSection(3, 2),
      EarlierSection(3, 4) }

LayoutSongs ==
    { [title |-> "untitled", sections |-> before \o <<sec>>] :
        before \in UNION {[1..n -> EarlierSections] : n \in 0..2},
        sec \in LayoutSections }

ValidCursors(sg) ==
    { c \in [section : 0..Len(sg.sections) - 1, bar : 0..MaxLayoutBars,
             subdivision : 0..1] :
        /\ c.bar < Len(sg.sections[c.section + 1].bars)
        /\ c.subdivision < sg.sections[c.section + 1].bars[c.bar + 1].subdivision }

InitLayout ==
    /\ song \in LayoutSongs
    /\ cursor \in ValidCursors(song)
    /\ panicked = FALSE
    /\ calls = 0
    /\ InitSession
    /\ arg = "None"
    /\ ret = [op |-> "none"]

CalcWidthsCall ==
    /\ ret.op = "none"
    /\ ret' = [op |-> "calc_widths", widths |-> calc_widths(current_section(St))]
    /\ UNCHANGED <<song, cursor, panicked, calls, session, arg>>

FindCursorCall ==
    /\ ret.op = "none"
    /\ ret' = [op |-> "find_cursor", pos |-> find_cursor(St)]
    /\ UNCHANGED <<song, cursor, panicked, calls, session, arg>>

(* One frame and the caret of the same state: the cells draw starts the   *)
(* cursor's slot at, and what find_cursor returns.                         *)
DrawCall ==
    LET d == draw(St) IN
    /\ ret.op = "none"
    /\ ret' = [op |-> "draw", panicked |-> d.panicked,
               cells |-> {c \in d.cells : /\ c[1] = cursor.section
                                          /\ c[2] = cursor.bar
                                          /\ c[3] = cursor.subdivision},
               pos |-> find_cursor(St)]
    /\ UNCHANGED <<song, cursor, panicked, calls, session, arg>>

NextLayout ==
    \/ CalcWidthsCall
    \/ FindCursorCall
    \/ DrawCall

SpecLayout == InitLayout /\ [][NextLayout]_vars

(* What slot s of bar number i of the section asks of its column.          *)
C18_SlotNeed(section, i, s) ==
    LET chords == section.bars[i + 1].chords IN
    IF s \in DOMAIN chords THEN Len(ChordFormat(chords[s])) + 1 ELSE 2

C18_ColumnSlots(section, c) ==
    { p \in (0..Len(section.bars) - 1) \X (0..MaxSubdivision - 1) :
        /\ p[1] % section.wrap = c
        /\ p[2] < section.bars[p[1] + 1].subdivision }

C18_ExpectedWidth(section, c) ==
    LET needs == {C18_SlotNeed(section, p[1], p[2]) : p \in C18_ColumnSlots(section, c)}
    IN IF needs = {} THEN 0 ELSE MaxOf(needs)

(* C18: for every section and every column index c in 0..wrap,           *)
(* calc_widths returns for c the maximum, over every subdivision index     *)
(* below the subdivision of every bar whose index modulo wrap is c, of     *)
(* (length of the formatted chord + 1) when that subdivision is occupied   *)
(* and 2 when it is empty; a column containing at least one bar has width  *)
(* >= 2 and strictly greater than the formatted length of every chord      *)
(* shown in it.                                                            *)
C18_CalcWidths ==
    ret.op = "calc_widths" =>
        /\ Len(ret.widths) = CurSection.wrap
        /\ \A c \in 0..CurSection.wrap - 1 :
              /\ ret.widths[c + 1] = C18_ExpectedWidth(CurSection, c)
              /\ c < Len(CurSection.bars) => ret.widths[c + 1] >= 2
              /\ \A p \in C18_ColumnSlots(CurSection, c) :
                    p[2] \in DOMAIN CurSection.bars[p[1] + 1].chords =>
                        ret.widths[c + 1] >
                            Len(ChordFormat(CurSection.bars[p[1] + 1].chords[p[2]]))

(* Three bars in two columns: the first holds the long chord of bar 0 and  *)
(* the empty bar 2, the second the short chord of bar 1.                   *)
C18_Witness ==
    /\ ret.op = "calc_widths"
    /\ CurSection.wrap = 2
    /\ Len(CurSection.bars) = 3
    /\ LongChord \in {CurSection.bars[1].chords[k] : k \in DOMAIN CurSection.bars[1].chords}
    /\ CurSection.bars[3].chords = EmptyMap
    /\ ret.widths = <<9, 2>>

C19_Ceil(n, w) == (n + w - 1) \div w

(* The row find_cursor gives for slot 0 of bar 0 of section s.             *)
C19_RowOfBar0(s) ==
    find_cursor([song |-> song, cursor |-> CursorAt(s, 0, 0), panicked |-> FALSE]).y

(* C19: in the row computed by find_cursor, the row of bar 0 of section   *)
(* i+1 is the row of bar 0 of section i plus ceil(bar_count(i) / wrap(i))  *)
(* + 3, and within a section bar b lies floor(b / wrap) rows below bar 0.  *)
C19_RowsPerSection ==
    ret.op = "find_cursor" =>
        LET s == cursor.section
            before == song.sections[s]
        IN ret.pos.y =
              (IF s = 0 THEN C19_RowOfBar0(0)
               ELSE C19_RowOfBar0(s - 1)
                       + C19_Ceil(Len(before.bars), before.wrap) + 3)
              + (cursor.bar \div CurSection.wrap)

(* C19 as amended: the row of bar 0 of section i+1 is the row of bar 0 of *)
(* section i plus ceil(bar_count(i) / wrap(i)) + 2 (the label line, the    *)
(* grid rows and one line of spacing), and within a section bar b lies     *)
(* floor(b / wrap) rows below bar 0.                                       *)
C19_RowsPerSectionPlusTwo ==
    ret.op = "find_cursor" =>
        LET s == cursor.section
            before == song.sections[s]
        IN /\ ~ret.pos.panicked
           /\ ret.pos.y =
                 (IF s = 0 THEN C19_RowOfBar0(0)
                  ELSE C19_RowOfBar0(s - 1)
                          + C19_Ceil(Len(before.bars), before.wrap) + 2)
                 + (cursor.bar \div CurSection.wrap)

(* The cursor is on the third bar of a third section wrapped at 2, below   *)
(* two sections of three bars wrapped at 2: 3 + 4 + 4 + 1.                 *)
C19_Witness ==
    /\ ret.op = "find_cursor"
    /\ Len(song.sections) = 3
    /\ song.sections[1] = EarlierSection(3, 2)
    /\ song.sections[2] = EarlierSection(3, 2)
    /\ cursor.section = 2
    /\ cursor.bar = 2
    /\ CurSection.wrap = 2
    /\ ret.pos.y = 12

(* C20: for every valid cursor (s, b, k) the column find_cursor returns   *)
(* is the left margin 1, plus width[j mod wrap] * subdivision(j) + 1 for   *)
(* each bar j < b on the visual row of b (floor(j/wrap) = floor(b/wrap)),  *)
(* plus width[b mod wrap] * k; bars on earlier rows contribute nothing.    *)
C20_Column ==
    (ret.op = "find_cursor" /\ CursorValid) =>
        LET sec == CurSection
            b == cursor.bar
            W(j) == C18_ExpectedWidth(sec, j % sec.wrap)
        IN /\ ~ret.pos.panicked
           /\ ret.pos.x =
                 1 + SumSeq([n \in 1..b |->
                         IF (n - 1) \div sec.wrap = b \div sec.wrap
                         THEN W(n - 1) * sec.bars[n].subdivision + 1 ELSE 0])
                   + W(b) * cursor.subdivision

(* The cursor is on the second slot of the third bar of a row of three     *)
(* bars, each two slots of width 9: 1 + 19 + 19 + 9.                       *)
C20_Witness ==
    /\ ret.op = "find_cursor"
    /\ CurSection.wrap = 3
    /\ cursor.bar = 2
    /\ cursor.subdivision = 1
    /\ \A n \in 1..3 : 0 \in DOMAIN CurSection.bars[n].chords
    /\ ret.pos.x = 48

-----------------------------------------------------------------------------
(* Chord entry in the editor reached from the default song.                *)

(* The text chord_input returns for the entry e typed in the current state. *)
C21_TypedText(e) == chord_input(St, e[1], e[2]).buf

(* The current step is the handler's answer to the entry e.                *)
C21_StepOfEntry(e) ==
    LET r == input_or_edit_in_place_chord(St, e[1], e[2]) IN
    /\ KeyChar
    /\ NoteTryFrom(e[1]) # "Err"
    /\ song' = r.song
    /\ cursor' = r.cursor
    /\ panicked' = r.panicked

(* C21: when chord entry begins with the cursor at (s, b, k) and the typed *)
(* text parses, the chord is stored in section s, bar b, slot k and in no  *)
(* other slot, whichever key ended the entry and wherever that key moved   *)
(* the cursor, and the insertion never indexes a bar that does not exist.  *)
C21_ChordStoredAtEntryCursor ==
    [][\A e \in ChordEntries :
          (C21_StepOfEntry(e) /\ CursorValid /\ ChordParse(C21_TypedText(e)).ok) =>
              /\ ~panicked'
              /\ \A i \in 1..Len(song'.sections) :
                    \A j \in 1..Len(song'.sections[i].bars) :
                        song'.sections[i].bars[j].chords =
                            IF i = cursor.section + 1 /\ j = cursor.bar + 1
                            THEN MapInsert(CurBar.chords, cursor.subdivision,
                                           ChordParse(C21_TypedText(e)).chord)
                            ELSE IF i <= Len(song.sections)
                                    /\ j <= Len(song.sections[i].bars)
                            THEN song.sections[i].bars[j].chords
                            ELSE EmptyMap]_vars

-----------------------------------------------------------------------------
(* One navigation call on a song that satisfies the structural invariants, *)
(* from a valid cursor: song and cursor are the state the call is made in, *)
(* ret is the call and the editor state it leaves.                         *)

(* Bars of one, two and four slots, the last with a chord on its first.    *)
NavBars ==
    { BarNew(DefaultBeats, 1), BarNew(DefaultBeats, 2),
      [beats |-> DefaultBeats, subdivision |-> 4,
       chords |-> MapInsert(EmptyMap, 0, ChordC)] }

NavWrap == 2

NavSections(label) ==
    { [label |-> label, bars |-> bars, repeats |-> FALSE, wrap |-> NavWrap] :
        bars \in UNION {[1..n -> NavBars] : n \in 1..MaxNavBars} }

(* One section, or two.                                                    *)
NavSongs ==
    { [title |-> "untitled", sections |-> <<a>>] : a \in NavSections("A") }
    \cup { [title |-> "untitled", sections |-> <<a, b>>] :
             a \in NavSections("A"), b \in NavSections("B") }

NavCursors(sg) ==
    { c \in [section : 0..Len(sg.sections) - 1, bar : 0..MaxNavBars - 1,
             subdivision : 0..3] :
        /\ c.bar < Len(sg.sections[c.section + 1].bars)
        /\ c.subdivision < sg.sections[c.section + 1].bars[c.bar + 1].subdivision }

InitNav ==
    /\ song \in NavSongs
    /\ cursor \in NavCursors(song)
    /\ panicked = FALSE
    /\ calls = 0
    /\ InitSession
    /\ arg = "None"
    /\ ret = [op |-> "none"]

NavPrevSubdivision ==
    /\ ret.op = "none"
    /\ ret' = [op |-> "prev_subdivision", st |-> prev_subdivision(St)]
    /\ UNCHANGED <<song, cursor, panicked, calls, session, arg>>

NavPrevBar ==
    /\ ret.op = "none"
    /\ ret' = [op |-> "prev_bar", st |-> prev_bar(St)]
    /\ UNCHANGED <<song, cursor, panicked, calls, session, arg>>

NavPrevSection ==
    /\ ret.op = "none"
    /\ ret' = [op |-> "prev_section", st |-> prev_section(St)]
    /\ UNCHANGED <<song, cursor, panicked, calls, session, arg>>

NavNextBar ==
    /\ ret.op = "none"
    /\ ret' = [op |-> "next_bar", st |-> next_bar(St)]
    /\ UNCHANGED <<song, cursor, panicked, calls, session, arg>>

NavUp ==
    /\ ret.op = "none"
    /\ ret' = [op |-> "up", st |-> key_up(St)]
    /\ UNCHANGED <<song, cursor, panicked, calls, session, arg>>

NavDown ==
    /\ ret.op = "none"
    /\ ret' = [op |-> "down", st |-> key_down(St)]
    /\ UNCHANGED <<song, cursor, panicked, calls, session, arg>>

NavNextSubdivision ==
    /\ ret.op = "none"
    /\ ret' = [op |-> "next_subdivision", st |-> next_subdivision(St)]
    /\ UNCHANGED <<song, cursor, panicked, calls, session, arg>>

NavNextOrCreateBar ==
    /\ ret.op = "none"
    /\ ret' = [op |-> "next_or_create_bar", st |-> next_or_create_bar(St)]
    /\ UNCHANGED <<song, cursor, panicked, calls, session, arg>>

NavNextOrCreateSection ==
    /\ ret.op = "none"
    /\ ret' = [op |-> "next_or_create_section", st |-> next_or_create_section(St)]
    /\ UNCHANGED <<song, cursor, panicked, calls, session, arg>>

(* next_subdivision, then prev_subdivision unless the first call panicked. *)
NavNextThenPrev ==
    LET mid == next_subdivision(St) IN
    /\ ret.op = "none"
    /\ ret' = [op |-> "next_then_prev", mid |-> mid,
               st |-> IF mid.panicked THEN mid ELSE prev_subdivision(mid)]
    /\ UNCHANGED <<song, cursor, panicked, calls, session, arg>>

NextNav ==
    \/ NavPrevSubdivision
    \/ NavPrevBar
    \/ NavPrevSection
    \/ NavNextBar
    \/ NavUp
    \/ NavDown
    \/ NavNextSubdivision
    \/ NavNextOrCreateBar
    \/ NavNextOrCreateSection
    \/ NavNextThenPrev

SpecNav == InitNav /\ [][NextNav]_vars

(* The song after is the song before with one empty bar appended to its    *)
(* last section.                                                           *)
C22_BarAppended(before, after) ==
    LET n == Len(before.sections) IN
    \E bar \in {Last(Last(after.sections).bars)} :
        /\ bar.chords = EmptyMap
        /\ after = [before EXCEPT !.sections[n].bars = Append(@, bar)]

(* The song after is the song before with one section appended.            *)
C22_SectionAppended(before, after) ==
    after = [before EXCEPT !.sections = Append(@, Last(after.sections))]

(* C22: prev_subdivision, prev_bar, prev_section, next_bar and the        *)
(* vertical moves never change the song; each call of next_subdivision,    *)
(* next_or_create_bar or next_or_create_section leaves the song unchanged  *)
(* or appends exactly one empty bar to the end of the last section or      *)
(* exactly one section to the end of the song, every pre-existing section, *)
(* bar and chord staying at the same index with the same content.          *)
C22_NavigationAppendsAtTail ==
    /\ ret.op \in {"prev_subdivision", "prev_bar", "prev_section", "next_bar",
                   "up", "down"} => ret.st.song = song
    /\ ret.op \in {"next_subdivision", "next_or_create_bar",
                   "next_or_create_section"} =>
          \/ ret.st.song = song
          \/ C22_BarAppended(song, ret.st.song)
          \/ C22_SectionAppended(song, ret.st.song)

(* next_or_create_bar on the last bar of the first of two sections moved   *)
(* the cursor into the second and left the song, chord included, alone.    *)
C22_Witness ==
    /\ ret.op = "next_or_create_bar"
    /\ Len(song.sections) = 2
    /\ cursor.section = 0
    /\ cursor.bar + 1 = Len(CurSection.bars)
    /\ ChordCount(song) > 0
    /\ ret.st.cursor.section = 1
    /\ ret.st.song = song

(* C23: for every song satisfying the structural invariants and every     *)
(* valid cursor (s, b, k), the (row, column) returned by find_cursor is    *)
(* the screen cell at which draw starts rendering slot k of bar b of       *)
(* section s.                                                              *)
C23_FindCursorMatchesDraw ==
    (ret.op = "draw" /\ CursorValid) =>
        /\ ~ret.panicked
        /\ ~ret.pos.panicked
        /\ ret.cells = {<<cursor.section, cursor.bar, cursor.subdivision,
                          ret.pos.y, ret.pos.x>>}

(* The cursor is on the second slot of the third bar of a third section    *)
(* wrapped at 2, after a bar holding the long chord: row 12, and column    *)
(* 1 + 9 on from the bar's first slot.                                     *)
C23_Witness ==
    /\ ret.op = "draw"
    /\ CursorValid
    /\ Len(song.sections) = 3
    /\ song.sections[1] = EarlierSection(3, 2)
    /\ song.sections[2] = EarlierSection(3, 2)
    /\ cursor = CursorAt(2, 2, 1)
    /\ CurSection.wrap = 2
    /\ LongChord \in {CurBar.chords[k] : k \in DOMAIN CurBar.chords}
    /\ ret.cells = {<<2, 2, 1, 12, 10>>}

(* The command line ran `edit <path>` and the file was read.               *)
C24_Loaded ==
    /\ EntryKeyColon
    /\ Len(ret'.buf) > 5
    /\ SubSeq(ret'.buf, 1, 5) = <<"e", "d", "i", "t", " ">>
    /\ ~panicked'

(* C24: after the `edit <path>` command replaces the song with a loaded   *)
(* song that satisfies the structural invariants, the cursor addresses an  *)
(* existing slot of the loaded song (section, bar and subdivision indices  *)
(* all in range), for every cursor position held before the load.          *)
C24_CursorValidAfterLoad ==
    [][C24_Loaded => CursorValid']_vars

-----------------------------------------------------------------------------
(* Sessions from the default song in which sections are created, walked    *)
(* back over and deleted, with at most MaxLoadedSections sections at a     *)
(* time.                                                                   *)

SpecSections == Init /\ [][NextLoaded]_vars

C25_Labels(sg) == [i \in 1..Len(sg.sections) |-> sg.sections[i].label]

(* Labels from A..P strictly increasing, every "?" after all of them.      *)
C25_Ordered ==
    LET labels == C25_Labels(song) IN
    /\ \A i \in 1..Len(labels) : labels[i] = "?" \/ SectionLabelPosition(labels[i]) > 0
    /\ \A i, j \in 1..Len(labels) :
          i < j => \/ labels[j] = "?"
                   \/ /\ labels[i] # "?"
                      /\ SectionLabelPosition(labels[i]) < SectionLabelPosition(labels[j])

(* The labels after a step are the labels before it, with one label added  *)
(* at the end or one taken out.                                            *)
C25_LabelsKept ==
    LET before == C25_Labels(song)
        after == C25_Labels(song')
    IN \/ after = before
       \/ Len(after) = Len(before) + 1 /\ SubSeq(after, 1, Len(before)) = before
       \/ \E i \in 0..Len(before) - 1 : after = RemoveAt(before, i)

(* C25: in every song reachable from the default song by navigation,      *)
(* section creation and deletion, a section's label never changes after    *)
(* the section is created, and in document order the labels taken from     *)
(* A..P are strictly increasing with every "?"-labelled section after all  *)
(* of them, so no two sections share a label from A..P.                    *)
C25_SectionLabels == [](C25_Ordered) /\ [][C25_LabelsKept]_vars

(* Sections up to P were created and all but the first and the last        *)
(* deleted, and one more was created after P.                              *)
C25_Witness ==
    /\ ~panicked
    /\ C25_Labels(song) = <<"A", "P", "?">>

(* C26: for every valid cursor c in any song satisfying the structural    *)
(* invariants (bars may have different subdivisions), next_subdivision     *)
(* followed by prev_subdivision returns the cursor to c, including when    *)
(* next_subdivision crossed a bar boundary, crossed a section boundary or  *)
(* appended a new bar.                                                     *)
C26_NextThenPrevSubdivision ==
    (ret.op = "next_then_prev" /\ CursorValid) =>
        /\ ~ret.st.panicked
        /\ ret.st.cursor = cursor

(* next_subdivision crossed from the four-slot last bar of the first       *)
(* section into a second section that begins with a one-slot bar, and      *)
(* prev_subdivision came back to the slot it left.                         *)
C26_Witness ==
    /\ ret.op = "next_then_prev"
    /\ Len(song.sections) = 2
    /\ cursor.section = 0
    /\ cursor.subdivision = 3
    /\ song.sections[2].bars[1].subdivision = 1
    /\ ret.mid.cursor = CursorAt(1, 0, 0)
    /\ ret.st.cursor = cursor

(* c is at or before d in the lexicographic order on (section, bar,        *)
(* subdivision).                                                           *)
C27_AtOrBefore(c, d) ==
    \/ c.section < d.section
    \/ c.section = d.section /\ c.bar < d.bar
    \/ c.section = d.section /\ c.bar = d.bar /\ c.subdivision <= d.subdivision

(* C27: under the lexicographic order on (section, bar, subdivision),     *)
(* from every valid cursor prev_subdivision and prev_bar never leave the   *)
(* cursor at a later position than before the call, and next_subdivision,  *)
(* next_bar, next_or_create_bar and next_or_create_section never leave it  *)
(* at an earlier position; a backward move at the first slot (0, 0, 0)     *)
(* leaves the cursor at (0, 0, 0).                                         *)
C27_MovesAreMonotone ==
    CursorValid =>
        /\ ret.op \in {"prev_subdivision", "prev_bar"} =>
              /\ C27_AtOrBefore(ret.st.cursor, cursor)
              /\ cursor = CursorAt(0, 0, 0) => ret.st.cursor = CursorAt(0, 0, 0)
        /\ ret.op \in {"next_subdivision", "next_bar", "next_or_create_bar",
                       "next_or_create_section"} =>
              C27_AtOrBefore(cursor, ret.st.cursor)

=============================================================================
